---- MODULE Spec2Model ----
(***************************************************************************)
(* pr-review-service: the assignment service (internal/service/service.go) *)
(* over the PostgreSQL repository (internal/repo/postgres.go) and the      *)
(* schema of internal/db/migrate.go.                                       *)
(*                                                                         *)
(* The store is the four tables of the schema.  Every request is handled  *)
(* by a worker that runs the service method one SQL statement (or one     *)
(* committed transaction) at a time; workers interleave at these points.  *)
(* Identifiers are character strings, written as sequences of one-letter  *)
(* strings, because the candidate query splices them into its SQL text.   *)
(***************************************************************************)
EXTENDS Integers, Sequences, FiniteSets, TLC

(***************************************************************************)
(* Bounds of the model.                                                    *)
(***************************************************************************)
\* number of requests accepted in one behaviour
MaxCalls == 4
\* longest member list of a CreateTeam request
MaxMembers == 3
\* the same, for the requests over plain ids only (SpecPlain)
MaxMembersPlain == 4
\* the same, for the member lists that may repeat a user id (SpecTeams)
MaxMembersRepeat == 2

Procs == {"w1", "w2"}

\* user ids: two plain ones and one that carries SQL text: x') OR ('x'='x
UA == <<"a">>
UB == <<"b">>
UQ == <<"x", "'", ")", " ", "O", "R", " ", "(", "'", "x", "'", "=", "'", "x">>
UserIds == {UA, UB, UQ}
NoId == <<>>
\* four plain user ids, of one team (SpecPlain)
UC == <<"c">>
UD == <<"d">>
PlainIds == {UA, UB, UC, UD}
\* a fifth plain user id, for the team of SpecRace
UE == <<"e">>
RaceIds == {UA, UB, UC, UD, UE}
PlainTeamNames == {"t1"}

TeamNames == {"t1", "t2"}
Usernames == {"n1"}
\* the is_active values the CreateTeam requests submit (SetUserIsActive sets the
\* other one)
MemberFlags == {TRUE}
PRIds == {"p1"}
PRNames == {"f1"}

\* model.PRStatusOpen, model.PRStatusMerged
PRStatusOpen == "OPEN"
PRStatusMerged == "MERGED"

\* service errors; the empty string is a nil error
ErrNil == ""
ErrTeamExists == "team_exists"
ErrPRExists == "pr_exists"
ErrPRMerged == "pr_merged"
ErrNotAssigned == "not_assigned"
ErrNoCandidate == "no_candidate"
ErrNotFound == "not_found"
\* errors of the driver, passed through unchanged
ErrUniqueViolation == "pq: unique_violation"
ErrSyntax == "pq: syntax error"
\* the error of a store call that fails: the connection is lost or ctx is cancelled
ErrStore == "context canceled"
BusinessErrors ==
  {ErrTeamExists, ErrPRExists, ErrPRMerged, ErrNotAssigned, ErrNoCandidate, ErrNotFound}

VARIABLES
  teams,   \* table teams: the set of names
  users,   \* table users: user_id -> [username, team_name, is_active]
  prs,     \* table pull_requests: pull_request_id -> row
  links,   \* table pull_request_reviewers: set of <<pull_request_id, user_id>>
  clock,   \* the process clock read by time.Now()
  pc,      \* per worker: the store call it is about to make
  frame,   \* per worker: the request and the locals of the running method
  lastMerge, \* what the latest request returned, if it was a MergePR that ran alone
  ncalls   \* number of requests accepted so far

vars == <<teams, users, prs, links, clock, pc, frame, lastMerge, ncalls>>
store == <<teams, users, prs, links>>

Range(s) == {s[i] : i \in DOMAIN s}
Min(x, y) == IF x < y THEN x ELSE y
NoDup(s) == \A i, j \in DOMAIN s : i # j => s[i] # s[j]
\* all orders in which the rows of a set can come back from a query
Orders(S) == {s \in [1..Cardinality(S) -> S] : Range(s) = S}

(***************************************************************************)
(* The candidate query: its SQL text and what PostgreSQL makes of it.      *)
(***************************************************************************)
\* fmt.Sprintf("'%s'", e)
QuoteId(e) == <<"'">> \o e \o <<"'">>

RECURSIVE JoinQuoted(_, _)
\* the loop over exclude: the first id quoted, the others after ", "
JoinQuoted(exclude, i) ==
  IF i > Len(exclude) THEN <<>>
  ELSE (IF i = 1 THEN QuoteId(exclude[i]) ELSE <<",", " ">> \o QuoteId(exclude[i]))
       \o JoinQuoted(exclude, i + 1)

\* the text ex that is concatenated into the query after "user_id NOT IN "
ExcludeFragment(exclude) == <<"(">> \o JoinQuoted(exclude, 1) \o <<")">>

RECURSIVE SkipSpaces(_, _)
SkipSpaces(s, i) == IF i <= Len(s) /\ s[i] = " " THEN SkipSpaces(s, i + 1) ELSE i

RECURSIVE ScanLiteral(_, _, _)
\* a string constant from the character after its opening quote: '' inside it is a
\* quote character, a single ' ends it
ScanLiteral(s, j, acc) ==
  IF j > Len(s) THEN [ok |-> FALSE, val |-> acc, next |-> j]
  ELSE IF s[j] = "'"
       THEN IF j + 1 <= Len(s) /\ s[j + 1] = "'"
            THEN ScanLiteral(s, j + 2, Append(acc, "'"))
            ELSE [ok |-> TRUE, val |-> acc, next |-> j + 1]
       ELSE ScanLiteral(s, j + 1, Append(acc, s[j]))

\* a string constant expected at position k
LiteralFrom(s, k) ==
  IF k <= Len(s) /\ s[k] = "'" THEN ScanLiteral(s, k + 1, <<>>)
  ELSE [ok |-> FALSE, val |-> <<>>, next |-> k]

\* a string constant expected at position i, after blanks
LiteralAt(s, i) == LiteralFrom(s, SkipSpaces(s, i))

RECURSIVE ParseListItems(_, _, _)
\* after the item lit, at position n: "," and the next item, or ")" and the end
ListSeparator(s, lit, n, acc) ==
  IF n > Len(s) THEN [ok |-> FALSE, vals |-> acc, next |-> n]
  ELSE IF s[n] = "," THEN ParseListItems(s, n + 1, acc \cup {lit.val})
  ELSE IF s[n] = ")" THEN [ok |-> TRUE, vals |-> acc \cup {lit.val}, next |-> n + 1]
  ELSE [ok |-> FALSE, vals |-> acc, next |-> n]

ListAfterItem(s, lit, acc) ==
  IF lit.ok THEN ListSeparator(s, lit, SkipSpaces(s, lit.next), acc)
  ELSE [ok |-> FALSE, vals |-> acc, next |-> lit.next]

\* the items of the parenthesised list of the NOT IN, from the item at position i
ParseListItems(s, i, acc) == ListAfterItem(s, LiteralAt(s, i), acc)

\* one operand "(" constant "=" constant ")" of an OR, read part by part
NoComparison(n) == [ok |-> FALSE, val |-> FALSE, next |-> n]

ComparisonClose(s, l, r, c) ==
  IF c <= Len(s) /\ s[c] = ")" THEN [ok |-> TRUE, val |-> (l.val = r.val), next |-> c + 1]
  ELSE NoComparison(c)

ComparisonRight(s, l, r) ==
  IF r.ok THEN ComparisonClose(s, l, r, SkipSpaces(s, r.next)) ELSE NoComparison(r.next)

ComparisonEquals(s, l, e) ==
  IF e <= Len(s) /\ s[e] = "=" THEN ComparisonRight(s, l, LiteralAt(s, e + 1))
  ELSE NoComparison(e)

ComparisonLeft(s, l) ==
  IF l.ok THEN ComparisonEquals(s, l, SkipSpaces(s, l.next)) ELSE NoComparison(l.next)

ComparisonOpen(s, k) ==
  IF k <= Len(s) /\ s[k] = "(" THEN ComparisonLeft(s, LiteralAt(s, k + 1))
  ELSE NoComparison(k)

ComparisonAt(s, i) == ComparisonOpen(s, SkipSpaces(s, i))

RECURSIVE ParseDisjuncts(_, _, _)
DisjunctsAfter(s, cmp, acc) ==
  IF cmp.ok THEN ParseDisjuncts(s, cmp.next, acc \/ cmp.val)
  ELSE [ok |-> FALSE, val |-> acc]

DisjunctsFrom(s, k, acc) ==
  IF k > Len(s) THEN [ok |-> TRUE, val |-> acc]
  ELSE IF k + 1 <= Len(s) /\ s[k] = "O" /\ s[k + 1] = "R"
       THEN DisjunctsAfter(s, ComparisonAt(s, k + 2), acc)
       ELSE [ok |-> FALSE, val |-> acc]

\* what follows the list: nothing, or OR-ed comparisons of constants
ParseDisjuncts(s, i, acc) == DisjunctsFrom(s, SkipSpaces(s, i), acc)

NoWhere == [ok |-> FALSE, excluded |-> {}, always |-> FALSE]

WhereResult(lst, tail) ==
  [ok |-> tail.ok, excluded |-> lst.vals, always |-> tail.ok /\ tail.val]

WhereAfterList(ex, lst) ==
  IF lst.ok THEN WhereResult(lst, ParseDisjuncts(ex, lst.next, FALSE)) ELSE NoWhere

\* The condition "team_name=$1 AND is_active=true AND user_id NOT IN " + ex as the
\* server reads it: AND binds tighter than OR, so the condition is
\* (team AND active AND user_id NOT IN excluded) OR always.  Text that is no list of
\* string constants followed by such comparisons is rejected as an error.
ParseWhere(ex) ==
  IF Len(ex) >= 1 /\ ex[1] = "(" THEN WhereAfterList(ex, ParseListItems(ex, 2, {}))
  ELSE NoWhere

\* the rows the WHERE clause w of the candidate query keeps
CandidateRows(team, w) ==
  {u \in DOMAIN users :
     \/ users[u].team_name = team /\ users[u].is_active /\ u \notin w.excluded
     \/ w.always}

\* ORDER BY random() LIMIT $2: every outcome the random order can give
RandomLimit(limit, cand) ==
  {s \in [1..Min(limit, Cardinality(cand)) -> cand] : NoDup(s)}

\* the query with the WHERE clause w: an error of the server, or the rows
QueryCandidates(team, limit, w) ==
  IF ~w.ok THEN [err |-> ErrSyntax, results |-> {<<>>}]
  ELSE [err |-> ErrNil, results |-> RandomLimit(limit, CandidateRows(team, w))]

GetRandomActiveReviewersFromTeamExcluding(team, limit, exclude) ==
  QueryCandidates(team, limit, ParseWhere(ExcludeFragment(exclude)))

(***************************************************************************)
(* The repository: one operator per statement or committed transaction.    *)
(***************************************************************************)
ErrNoRows == "sql: no rows in result set"
ErrForeignKey == "pq: foreign_key_violation"

\* model.User, model.PullRequest and their zero values
NoUser == [UserID |-> NoId, Username |-> "", TeamName |-> "", IsActive |-> FALSE]
NoPR == [ID |-> "", Name |-> "", AuthorID |-> NoId, Status |-> "",
         AssignedReviewers |-> <<>>, CreatedAt |-> 0, MergedAt |-> 0]
NoRow == [pull_request_name |-> "", author_id |-> NoId, status |-> "",
          created_at |-> 0, merged_at |-> 0]
NoTeam == [TeamName |-> "", Members |-> <<>>]

\* the reviewers of a pull request in a table of links
ReviewersIn(lk, id) == {l[2] : l \in {x \in lk : x[1] = id}}
Reviewers(id) == ReviewersIn(links, id)

\* the existence check of CreateTeamWithMembers lost
TeamExistsNever(name) == FALSE

\* SELECT EXISTS (SELECT 1 FROM teams WHERE name=$1)
TeamExists(name) == name \in teams

RECURSIVE UpsertMembers(_, _, _, _)
\* INSERT INTO users ... ON CONFLICT (user_id) DO UPDATE, for the members from i on
UpsertMembers(us, members, team_name, i) ==
  IF i > Len(members) THEN us
  ELSE UpsertMembers(
         (members[i].UserID :> [username |-> members[i].Username,
                                team_name |-> team_name,
                                is_active |-> members[i].IsActive]) @@ us,
         members, team_name, i + 1)

\* CreateTeamWithMembers after its existence check: INSERT INTO teams, the upserts
\* and the commit; teams.name is the primary key
InsertTeamWithMembers(t) ==
  IF t.TeamName \in teams
  THEN [err |-> ErrUniqueViolation, teams |-> teams, users |-> users]
  ELSE [err |-> ErrNil, teams |-> teams \cup {t.TeamName},
        users |-> UpsertMembers(users, t.Members, t.TeamName, 1)]

\* GetUserByID
GetUserByID(id) ==
  IF id \in DOMAIN users
  THEN [err |-> ErrNil,
        user |-> [UserID |-> id, Username |-> users[id].username,
                  TeamName |-> users[id].team_name, IsActive |-> users[id].is_active]]
  ELSE [err |-> ErrNoRows, user |-> NoUser]

\* UpdateUserIsActive with the WHERE clause applied to the returned row only: the
\* flag of every stored user is set
UpdateUserIsActiveEveryUser(id, active) ==
  IF id \in DOMAIN users
  THEN [err |-> ErrNil, users |-> [u \in DOMAIN users |-> [users[u] EXCEPT !.is_active = active]],
        user |-> [UserID |-> id, Username |-> users[id].username,
                  TeamName |-> users[id].team_name, IsActive |-> active]]
  ELSE [err |-> ErrNoRows, users |-> users, user |-> NoUser]

\* UpdateUserIsActive: UPDATE users SET is_active=$1 WHERE user_id=$2 RETURNING ...
UpdateUserIsActive(id, active) ==
  IF id \in DOMAIN users
  THEN [err |-> ErrNil, users |-> [users EXCEPT ![id].is_active = active],
        user |-> [UserID |-> id, Username |-> users[id].username,
                  TeamName |-> users[id].team_name, IsActive |-> active]]
  ELSE [err |-> ErrNoRows, users |-> users, user |-> NoUser]

\* PRExists with the existence check lost: it always answers false
PRExistsNever(id) == FALSE

\* PRExists
PRExists(id) == id \in DOMAIN prs

\* CreatePullRequest written as an upsert, the way the users are upserted: an
\* existing row is overwritten as a new OPEN pull request
CreatePullRequestUpsert(pr) ==
  [err |-> ErrNil,
   prs |-> (pr.ID :> [pull_request_name |-> pr.Name, author_id |-> pr.AuthorID,
                      status |-> PRStatusOpen, created_at |-> pr.CreatedAt,
                      merged_at |-> 0]) @@ prs,
   links |-> links \cup {<<pr.ID, r>> : r \in Range(pr.AssignedReviewers)}]

\* CreatePullRequest: the row and the reviewer links in one transaction.  The primary
\* keys of pull_requests and pull_request_reviewers and the references to users
\* reject the insert; a rejected transaction is rolled back.
CreatePullRequest(pr) ==
  IF pr.ID \in DOMAIN prs \/ ~NoDup(pr.AssignedReviewers)
  THEN [err |-> ErrUniqueViolation, prs |-> prs, links |-> links]
  ELSE IF pr.AuthorID \notin DOMAIN users
          \/ \E r \in Range(pr.AssignedReviewers) : r \notin DOMAIN users
  THEN [err |-> ErrForeignKey, prs |-> prs, links |-> links]
  ELSE [err |-> ErrNil,
        prs |-> (pr.ID :> [pull_request_name |-> pr.Name, author_id |-> pr.AuthorID,
                           status |-> PRStatusOpen, created_at |-> pr.CreatedAt,
                           merged_at |-> 0]) @@ prs,
        links |-> links \cup {<<pr.ID, r>> : r \in Range(pr.AssignedReviewers)}]

\* GetPullRequestWithReviewers, first query: the row of pull_requests
SelectPR(id) ==
  IF id \in DOMAIN prs
  THEN [err |-> ErrNil,
        pr |-> [ID |-> id, Name |-> prs[id].pull_request_name,
                AuthorID |-> prs[id].author_id, Status |-> prs[id].status,
                AssignedReviewers |-> <<>>, CreatedAt |-> prs[id].created_at,
                MergedAt |-> prs[id].merged_at]]
  ELSE [err |-> ErrNoRows, pr |-> NoPR]

\* GetPullRequestWithReviewers, second query: the user_id rows, in any order
SelectReviewers(id) == Orders(Reviewers(id))

\* SetPRMerged with merged_at left out of the UPDATE
UpdateMergedNoTimestamp(id, mergedAt) ==
  IF id \in DOMAIN prs
  THEN [prs EXCEPT ![id].status = PRStatusMerged]
  ELSE prs

\* SetPRMerged: UPDATE pull_requests SET status='MERGED', merged_at=$2 WHERE ...
UpdateMerged(id, mergedAt) ==
  IF id \in DOMAIN prs
  THEN [prs EXCEPT ![id].status = PRStatusMerged, ![id].merged_at = mergedAt]
  ELSE prs

\* SetPRReviewers: DELETE the links of the pull request and INSERT the new list, in
\* one transaction
SetPRReviewers(id, reviewers) ==
  IF ~NoDup(reviewers) THEN [err |-> ErrUniqueViolation, links |-> links]
  ELSE IF reviewers # <<>>
          /\ (id \notin DOMAIN prs \/ \E r \in Range(reviewers) : r \notin DOMAIN users)
  THEN [err |-> ErrForeignKey, links |-> links]
  ELSE [err |-> ErrNil,
        links |-> {l \in links : l[1] # id} \cup {<<id, r>> : r \in Range(reviewers)}]

\* the user ids whose team is name, in a table of users
MembersOf(us, name) == {u \in DOMAIN us : us[u].team_name = name}

\* GetTeam of the repository: teams LEFT JOIN users; no row means sql.ErrNoRows, and
\* the members come in the order of the rows, which the query leaves open
GetTeamRows(name) ==
  IF name \notin teams THEN [err |-> ErrNoRows, results |-> {NoTeam}]
  ELSE [err |-> ErrNil,
        results |->
          {[TeamName |-> name, Members |-> m] :
             m \in Orders({[UserID |-> u, Username |-> users[u].username,
                            IsActive |-> users[u].is_active] :
                             u \in MembersOf(users, name)})}]

\* GetPullRequestsByReviewer with AND pr.status='OPEN' added to its condition
GetOpenPullRequestsByReviewer(uid) ==
  Orders({[ID |-> id, Name |-> prs[id].pull_request_name,
           AuthorID |-> prs[id].author_id, Status |-> prs[id].status] :
            id \in {i \in DOMAIN prs : <<i, uid>> \in links /\ prs[i].status = PRStatusOpen}})

\* GetPullRequestsByReviewer: pull_requests JOIN pull_request_reviewers WHERE
\* r.user_id=$1, the rows in any order
GetPullRequestsByReviewer(uid) ==
  Orders({[ID |-> id, Name |-> prs[id].pull_request_name,
           AuthorID |-> prs[id].author_id, Status |-> prs[id].status] :
            id \in {i \in DOMAIN prs : <<i, uid>> \in links}})

\* COUNT(*) ... GROUP BY user_id: one row for every user_id among the links
GroupedCounts ==
  {[UserID |-> u, Assignments |-> Cardinality({l \in links : l[2] = u})] :
     u \in {l[2] : l \in links}}

\* ORDER BY assignments DESC with the order of the statistics left out
UnorderedStats(rows) == Orders(rows)

\* ORDER BY assignments DESC: every order of the rows with no count before a larger
\* one
OrderByAssignmentsDesc(rows) ==
  {s \in Orders(rows) :
     \A i, j \in DOMAIN s : i < j => s[i].Assignments >= s[j].Assignments}

\* GetReviewerAssignmentStats
GetReviewerAssignmentStats == OrderByAssignmentsDesc(GroupedCounts)

(***************************************************************************)
(* Requests and workers.                                                   *)
(***************************************************************************)
IdOrder == <<UA, UB, UQ>>
PlainOrder == <<UA, UB, UC, UD>>

RECURSIVE Ascending(_)
Ascending(S) ==
  IF S = {} THEN <<>>
  ELSE LET m == CHOOSE x \in S : \A y \in S : x <= y
       IN  <<m>> \o Ascending(S \ {m})

\* the member lists of the CreateTeam requests: up to MaxMembers distinct users, each
\* with a name from Usernames and a flag from MemberFlags (the order of distinct
\* users does not matter to the upserts, so one order stands for all)
MemberListsOf(order, maxLen) ==
  UNION {
    {[i \in 1..Cardinality(S) |->
        [UserID |-> order[Ascending(S)[i]], Username |-> n[Ascending(S)[i]],
         IsActive |-> f[Ascending(S)[i]]]] :
       f \in [S -> MemberFlags], n \in [S -> Usernames]} :
    S \in {T \in SUBSET DOMAIN order : Cardinality(T) <= maxLen}}

MemberLists == MemberListsOf(IdOrder, MaxMembers)
\* SpecPlain's member lists: the first n plain ids, all active
PlainMemberLists ==
  {[i \in 1..n |-> [UserID |-> PlainOrder[i], Username |-> "n1", IsActive |-> TRUE]] :
     n \in 0..Min(MaxMembersPlain, Len(PlainOrder))}

\* the stored pull request id as the claims look at it: its row and reviewer set
PRSnapshot(ps, lk, id) ==
  IF id \in DOMAIN ps
  THEN [exists |-> TRUE, row |-> ps[id], revs |-> ReviewersIn(lk, id)]
  ELSE [exists |-> FALSE, row |-> NoRow, revs |-> {}]

\* what a service method returns
Ret(err, pr, newReviewer, user) ==
  [err |-> err, pr |-> pr, newReviewer |-> newReviewer, user |-> user]
Failed(err) == Ret(err, NoPR, NoId, NoUser)

\* A worker's frame: the request (op and its arguments), the locals of the service
\* method (pr, user_team, now, newReviewer), the value it returns (ret), what the
\* read methods return (team, reviews, stats), and what
\* the properties need to know of the call: clean (no other request was in progress
\* at any time during it), wrote (it changed the store), pre (the pull request when
\* the call started), prior (lastMerge when the call started), seen (the reviewers
\* the call read), selN (the eligible users when it selected), fault (a store call
\* of the call failed); and of the transaction of SetPRReviewers, when its
\* statements are taken one by one: target (the link rows its DELETE found and has
\* still to delete) and deleted (the rows it has deleted and not yet committed).
IdleFrame ==
  [op |-> "", t |-> NoTeam, uid |-> NoId, active |-> FALSE,
   id |-> "", name |-> "", author |-> NoId, old |-> NoId,
   pr |-> NoPR, user_team |-> "", now |-> 0, newReviewer |-> NoId,
   ret |-> Failed(ErrNil),
   clean |-> FALSE, wrote |-> FALSE,
   pre |-> [exists |-> FALSE, row |-> NoRow, revs |-> {}],
   prior |-> NoPR, seen |-> {}, selN |-> 0,
   team |-> NoTeam, reviews |-> <<>>, stats |-> <<>>, fault |-> FALSE,
   target |-> {}, deleted |-> {}]

Init ==
  /\ teams = {}
  /\ users = <<>>
  /\ prs = <<>>
  /\ links = {}
  /\ clock = 0
  /\ pc = [p \in Procs |-> "idle"]
  /\ frame = [p \in Procs |-> IdleFrame]
  /\ lastMerge = NoPR
  /\ ncalls = 0

\* the frame of a request that worker p accepts now
NewFrame(p, op, id) ==
  [IdleFrame EXCEPT !.op = op, !.id = id,
                    !.clean = \A q \in Procs \ {p} : pc[q] = "idle",
                    !.pre = PRSnapshot(prs, links, id),
                    !.prior = lastMerge]

\* the frames of the workers once p has accepted a request: the requests in
\* progress are no longer alone
Accepting(p) ==
  [q \in Procs |->
     IF q # p /\ pc[q] # "idle" THEN [frame[q] EXCEPT !.clean = FALSE] ELSE frame[q]]

\* worker p accepts a request
Accept(p) ==
  /\ pc[p] = "idle"
  /\ ncalls < MaxCalls
  /\ ncalls' = ncalls + 1
  /\ lastMerge' = NoPR

\* worker p goes on to its next store call
Goto(p, base, fr, next) ==
  /\ pc' = [pc EXCEPT ![p] = next]
  /\ frame' = [base EXCEPT ![p] = fr]

\* the service method of worker p returns r to the handler
Return(p, base, fr, r) ==
  /\ pc' = [pc EXCEPT ![p] = "done"]
  /\ frame' = [base EXCEPT ![p] = [fr EXCEPT !.ret = r]]

\* the handler of worker p writes the response; the worker is free again
Respond(p) ==
  /\ pc[p] = "done"
  /\ pc' = [pc EXCEPT ![p] = "idle"]
  /\ frame' = [frame EXCEPT ![p] = IdleFrame]
  /\ lastMerge' = IF frame[p].op = "MergePR" /\ frame[p].clean /\ frame[p].ret.err = ErrNil
                  THEN frame[p].ret.pr
                  ELSE NoPR
  /\ UNCHANGED <<store, clock, ncalls>>

(***************************************************************************)
(* Service.CreateTeam over CreateTeamWithMembers.                          *)
(***************************************************************************)
\* the request arrives; BEGIN and the existence check
CreateTeam(p, t) ==
  /\ Accept(p)
  /\ UNCHANGED <<store, clock>>
  /\ LET fr == [NewFrame(p, "CreateTeam", "") EXCEPT !.t = t]
     IN  IF TeamExists(t.TeamName)
         THEN Return(p, Accepting(p), fr, Failed(ErrTeamExists))
         ELSE Goto(p, Accepting(p), fr, "ct_insert")

\* the inserts and the commit
CreateTeamInsert(p) ==
  /\ pc[p] = "ct_insert"
  /\ UNCHANGED <<prs, links, clock, ncalls, lastMerge>>
  /\ LET r == InsertTeamWithMembers(frame[p].t)
     IN  /\ teams' = r.teams
         /\ users' = r.users
         /\ IF r.err # ErrNil
            THEN Return(p, frame, frame[p], Failed(r.err))
            ELSE Return(p, frame, [frame[p] EXCEPT !.wrote = TRUE], Failed(ErrNil))

(***************************************************************************)
(* Service.SetUserIsActive.                                                *)
(***************************************************************************)
SetUserIsActive(p, uid, active) ==
  /\ Accept(p)
  /\ UNCHANGED <<teams, prs, links, clock>>
  /\ LET fr == [NewFrame(p, "SetUserIsActive", "") EXCEPT !.uid = uid, !.active = active]
         r == UpdateUserIsActive(uid, active)
     IN  /\ users' = r.users
         /\ IF r.err = ErrNoRows
            THEN Return(p, Accepting(p), fr, Failed(ErrNotFound))
            ELSE Return(p, Accepting(p), [fr EXCEPT !.wrote = TRUE],
                        Ret(ErrNil, NoPR, NoId, r.user))

(***************************************************************************)
(* Service.CreatePR.                                                       *)
(***************************************************************************)
\* the users the contract counts as eligible for a new pull request
EligibleForCreate(team, author) ==
  {u \in DOMAIN users : users[u].is_active /\ users[u].team_name = team /\ u # author}

\* the request arrives; PRExists
CreatePR(p, id, name, author) ==
  /\ Accept(p)
  /\ UNCHANGED <<store, clock>>
  /\ LET fr == [NewFrame(p, "CreatePR", id) EXCEPT !.name = name, !.author = author]
     IN  IF PRExists(id)
         THEN Return(p, Accepting(p), fr, Failed(ErrPRExists))
         ELSE Goto(p, Accepting(p), fr, "cp_author")

\* GetUserByID(author)
CreatePRAuthor(p) ==
  /\ pc[p] = "cp_author"
  /\ UNCHANGED <<store, clock, ncalls, lastMerge>>
  /\ LET r == GetUserByID(frame[p].author)
     IN  IF r.err = ErrNoRows
         THEN Return(p, frame, frame[p], Failed(ErrNotFound))
         ELSE Goto(p, frame, [frame[p] EXCEPT !.user_team = r.user.TeamName], "cp_select")

\* exclude := []string{author}; the candidate query with limit 2; time.Now(); the
\* pull request value
CreatePRSelect(p) ==
  /\ pc[p] = "cp_select"
  /\ UNCHANGED <<store, ncalls, lastMerge>>
  /\ LET fr == frame[p]
         q == GetRandomActiveReviewersFromTeamExcluding(fr.user_team, 2, <<fr.author>>)
     IN  IF q.err # ErrNil
         THEN /\ clock' = clock
              /\ Return(p, frame, fr, Failed(q.err))
         ELSE \E revs \in q.results :
                /\ clock' = clock + 1
                /\ Goto(p, frame,
                        [fr EXCEPT !.now = clock + 1,
                                   !.selN = Cardinality(EligibleForCreate(fr.user_team, fr.author)),
                                   !.pr = [ID |-> fr.id, Name |-> fr.name,
                                           AuthorID |-> fr.author, Status |-> PRStatusOpen,
                                           AssignedReviewers |-> revs,
                                           CreatedAt |-> clock + 1, MergedAt |-> 0]],
                        "cp_insert")

\* CreatePullRequest
CreatePRInsert(p) ==
  /\ pc[p] = "cp_insert"
  /\ UNCHANGED <<teams, users, clock, ncalls, lastMerge>>
  /\ LET r == CreatePullRequest(frame[p].pr)
     IN  /\ prs' = r.prs
         /\ links' = r.links
         /\ IF r.err # ErrNil
            THEN Return(p, frame, frame[p], Failed(r.err))
            ELSE Return(p, frame, [frame[p] EXCEPT !.wrote = TRUE],
                        Ret(ErrNil, frame[p].pr, NoId, NoUser))

(***************************************************************************)
(* Service.MergePR.                                                        *)
(***************************************************************************)
\* the status check of MergePR lost: every call goes on to the UPDATE
AlreadyMergedNever(pr) == FALSE

\* if pr.Status == model.PRStatusMerged { return pr, nil }
AlreadyMerged(pr) == pr.Status = PRStatusMerged

\* the request arrives; GetPullRequestWithReviewers, the row
MergePR(p, id) ==
  /\ Accept(p)
  /\ UNCHANGED <<store, clock>>
  /\ LET fr == NewFrame(p, "MergePR", id)
         r == SelectPR(id)
     IN  IF r.err = ErrNoRows
         THEN Return(p, Accepting(p), fr, Failed(ErrNotFound))
         ELSE Goto(p, Accepting(p), [fr EXCEPT !.pr = r.pr], "mp_revs")

\* GetPullRequestWithReviewers, the reviewers; the status check; time.Now()
MergePRReviewers(p) ==
  /\ pc[p] = "mp_revs"
  /\ UNCHANGED <<store, ncalls, lastMerge>>
  /\ \E revs \in SelectReviewers(frame[p].id) :
       LET fr == [frame[p] EXCEPT !.pr.AssignedReviewers = revs]
       IN  IF AlreadyMerged(fr.pr)
           THEN /\ clock' = clock
                /\ Return(p, frame, fr, Ret(ErrNil, fr.pr, NoId, NoUser))
           ELSE /\ clock' = clock + 1
                /\ Goto(p, frame, [fr EXCEPT !.now = clock + 1], "mp_update")

\* SetPRMerged, the UPDATE
MergePRUpdate(p) ==
  /\ pc[p] = "mp_update"
  /\ UNCHANGED <<teams, users, links, clock, ncalls, lastMerge>>
  /\ prs' = UpdateMerged(frame[p].id, frame[p].now)
  /\ Goto(p, frame, [frame[p] EXCEPT !.wrote = TRUE], "mp_refetch")

\* SetPRMerged, GetPullRequestWithReviewers: the row
MergePRRefetch(p) ==
  /\ pc[p] = "mp_refetch"
  /\ UNCHANGED <<store, clock, ncalls, lastMerge>>
  /\ LET r == SelectPR(frame[p].id)
     IN  IF r.err # ErrNil
         THEN Return(p, frame, frame[p], Failed(r.err))
         ELSE Goto(p, frame, [frame[p] EXCEPT !.pr = r.pr], "mp_refetch_revs")

\* SetPRMerged, GetPullRequestWithReviewers: the reviewers
MergePRRefetchReviewers(p) ==
  /\ pc[p] = "mp_refetch_revs"
  /\ UNCHANGED <<store, clock, ncalls, lastMerge>>
  /\ \E revs \in SelectReviewers(frame[p].id) :
       LET fr == [frame[p] EXCEPT !.pr.AssignedReviewers = revs]
       IN  Return(p, frame, fr, Ret(ErrNil, fr.pr, NoId, NoUser))

(***************************************************************************)
(* Service.ReassignReviewer.                                               *)
(***************************************************************************)
\* the users the contract counts as eligible to replace a reviewer
EligibleForReassign(team, old, author, revs) ==
  {u \in DOMAIN users :
     users[u].is_active /\ users[u].team_name = team
     /\ u \notin ({old, author} \cup Range(revs))}

\* the loop that writes newReviewer over old in pr.AssignedReviewers
Replace(revs, old, new) == [i \in DOMAIN revs |-> IF revs[i] = old THEN new ELSE revs[i]]

\* the status check of ReassignReviewer lost
StatusMergedNever(pr) == FALSE

\* if pr.Status == model.PRStatusMerged { return nil, "", ErrPRMerged }
StatusMerged(pr) == pr.Status = PRStatusMerged

\* the assignment check lost: old counts as assigned whatever was read
AssignedAlways(reviewers, old) == TRUE

\* the loop that sets assigned when old is among pr.AssignedReviewers
Assigned(reviewers, old) == \E i \in DOMAIN reviewers : reviewers[i] = old

\* the request arrives; GetPullRequestWithReviewers, the row
ReassignReviewer(p, id, old) ==
  /\ Accept(p)
  /\ UNCHANGED <<store, clock>>
  /\ LET fr == [NewFrame(p, "ReassignReviewer", id) EXCEPT !.old = old]
         r == SelectPR(id)
     IN  IF r.err = ErrNoRows
         THEN Return(p, Accepting(p), fr, Failed(ErrNotFound))
         ELSE Goto(p, Accepting(p), [fr EXCEPT !.pr = r.pr], "rr_revs")

\* GetPullRequestWithReviewers, the reviewers; the status and assignment checks
ReassignReviewers(p) ==
  /\ pc[p] = "rr_revs"
  /\ UNCHANGED <<store, clock, ncalls, lastMerge>>
  /\ \E revs \in SelectReviewers(frame[p].id) :
       LET fr == [frame[p] EXCEPT !.pr.AssignedReviewers = revs, !.seen = Range(revs)]
       IN  IF StatusMerged(fr.pr)
           THEN Return(p, frame, fr, Failed(ErrPRMerged))
           ELSE IF ~Assigned(revs, fr.old)
           THEN Return(p, frame, fr, Failed(ErrNotAssigned))
           ELSE Goto(p, frame, fr, "rr_user")

\* GetUserByID(old); every error becomes ErrNotFound
ReassignOldUser(p) ==
  /\ pc[p] = "rr_user"
  /\ UNCHANGED <<store, clock, ncalls, lastMerge>>
  /\ LET r == GetUserByID(frame[p].old)
     IN  IF r.err # ErrNil
         THEN Return(p, frame, frame[p], Failed(ErrNotFound))
         ELSE Goto(p, frame, [frame[p] EXCEPT !.user_team = r.user.TeamName], "rr_select")

\* exclude := append([]string{old, pr.AuthorID}, pr.AssignedReviewers...); the
\* candidate query with limit 1; the replacement in the local list
ReassignSelect(p) ==
  /\ pc[p] = "rr_select"
  /\ UNCHANGED <<store, clock, ncalls, lastMerge>>
  /\ LET fr == frame[p]
         exclude == <<fr.old, fr.pr.AuthorID>> \o fr.pr.AssignedReviewers
         q == GetRandomActiveReviewersFromTeamExcluding(fr.user_team, 1, exclude)
     IN  IF q.err # ErrNil
         THEN Return(p, frame, fr, Failed(q.err))
         ELSE \E candidates \in q.results :
                IF Len(candidates) = 0
                THEN Return(p, frame, fr, Failed(ErrNoCandidate))
                ELSE Goto(p, frame,
                          [fr EXCEPT !.newReviewer = candidates[1],
                                     !.selN = Cardinality(EligibleForReassign(
                                                fr.user_team, fr.old, fr.pr.AuthorID,
                                                fr.pr.AssignedReviewers)),
                                     !.pr.AssignedReviewers =
                                        Replace(fr.pr.AssignedReviewers, fr.old, candidates[1])],
                          "rr_set")

\* SetPRReviewers
ReassignSet(p) ==
  /\ pc[p] = "rr_set"
  /\ UNCHANGED <<teams, users, prs, clock, ncalls, lastMerge>>
  /\ LET r == SetPRReviewers(frame[p].pr.ID, frame[p].pr.AssignedReviewers)
     IN  /\ links' = r.links
         /\ IF r.err # ErrNil
            THEN Return(p, frame, frame[p], Failed(r.err))
            ELSE Return(p, frame, [frame[p] EXCEPT !.wrote = TRUE],
                        Ret(ErrNil, frame[p].pr, frame[p].newReviewer, NoUser))

(***************************************************************************)
(* SetPRReviewers statement by statement.  ReassignSet above is the        *)
(* transaction run with no other write of the same links in between.       *)
(* BeginTx(ctx, nil) asks for the default isolation of the server, READ    *)
(* COMMITTED: the DELETE finds the rows committed when it starts, waits    *)
(* for a transaction that has deleted one of them, and passes over a row    *)
(* whose deletion was committed meanwhile; rows another transaction        *)
(* inserted after the DELETE started are not among the rows it found.      *)
(***************************************************************************)
\* the INSERTs and the COMMIT with the DELETE dropped from the transaction, the
\* INSERTs passing over the rows that exist
InsertAndCommitNoDelete(id, reviewers, deleted) ==
  IF reviewers # <<>>
     /\ (id \notin DOMAIN prs \/ \E r \in Range(reviewers) : r \notin DOMAIN users)
  THEN [err |-> ErrForeignKey, links |-> links]
  ELSE [err |-> ErrNil, links |-> links \cup {<<id, r>> : r \in Range(reviewers)}]

\* the INSERTs and the COMMIT of a transaction that has deleted the rows deleted:
\* the primary key rejects a row that is listed twice or is stored and not
\* deleted by this transaction
InsertAndCommit(id, reviewers, deleted) ==
  IF ~NoDup(reviewers) \/ \E r \in Range(reviewers) : <<id, r>> \in links \ deleted
  THEN [err |-> ErrUniqueViolation, links |-> links]
  ELSE IF reviewers # <<>>
          /\ (id \notin DOMAIN prs \/ \E r \in Range(reviewers) : r \notin DOMAIN users)
  THEN [err |-> ErrForeignKey, links |-> links]
  ELSE [err |-> ErrNil,
        links |-> (links \ deleted) \cup {<<id, r>> : r \in Range(reviewers)}]

\* BEGIN; the DELETE starts and finds the committed links of the pull request
ReassignSetBegin(p) ==
  /\ pc[p] = "rr_set"
  /\ UNCHANGED <<store, clock, ncalls, lastMerge>>
  /\ Goto(p, frame,
          [frame[p] EXCEPT !.target = {l \in links : l[1] = frame[p].pr.ID}],
          "rr_delete")

\* the DELETE ends: it waits while another transaction holds a row it found, and
\* deletes the rows it found that are still stored
ReassignSetDelete(p) ==
  /\ pc[p] = "rr_delete"
  /\ \A q \in Procs \ {p} : frame[q].deleted \cap frame[p].target = {}
  /\ UNCHANGED <<store, clock, ncalls, lastMerge>>
  /\ Goto(p, frame,
          [frame[p] EXCEPT !.deleted = frame[p].target, !.target = {}],
          "rr_insert")

\* the frames of the workers once p has committed: a DELETE in progress passes
\* over the rows whose deletion p committed
Committing(p) ==
  [q \in Procs |->
     IF q # p /\ pc[q] = "rr_delete"
     THEN [frame[q] EXCEPT !.target = @ \ frame[p].deleted]
     ELSE frame[q]]

\* the INSERTs and the COMMIT; an INSERT waits while another transaction holds
\* the deleted row of the same key; a rejected transaction is rolled back
ReassignSetInsert(p) ==
  /\ pc[p] = "rr_insert"
  /\ \A q \in Procs \ {p} :
       \A r \in Range(frame[p].pr.AssignedReviewers) :
         <<frame[p].pr.ID, r>> \notin frame[q].deleted
  /\ UNCHANGED <<teams, users, prs, clock, ncalls, lastMerge>>
  /\ LET r == InsertAndCommit(frame[p].pr.ID, frame[p].pr.AssignedReviewers,
                              frame[p].deleted)
     IN  /\ links' = r.links
         /\ IF r.err # ErrNil
            THEN Return(p, frame, [frame[p] EXCEPT !.deleted = {}], Failed(r.err))
            ELSE Return(p, Committing(p),
                        [frame[p] EXCEPT !.wrote = TRUE, !.deleted = {}],
                        Ret(ErrNil, frame[p].pr, frame[p].newReviewer, NoUser))

(***************************************************************************)
(* Service.GetTeam, Service.GetReviews, Service.GetReviewerStats: one query *)
(* each.                                                                   *)
(***************************************************************************)
GetTeam(p, name) ==
  /\ Accept(p)
  /\ UNCHANGED <<store, clock>>
  /\ LET fr == [NewFrame(p, "GetTeam", "") EXCEPT !.t = [TeamName |-> name, Members |-> <<>>]]
         r == GetTeamRows(name)
     IN  IF r.err = ErrNoRows
         THEN Return(p, Accepting(p), fr, Failed(ErrNotFound))
         ELSE \E team \in r.results :
                Return(p, Accepting(p), [fr EXCEPT !.team = team], Failed(ErrNil))

GetReviews(p, uid) ==
  /\ Accept(p)
  /\ UNCHANGED <<store, clock>>
  /\ \E result \in GetPullRequestsByReviewer(uid) :
       Return(p, Accepting(p),
              [NewFrame(p, "GetReviews", "") EXCEPT !.uid = uid, !.reviews = result],
              Failed(ErrNil))

GetReviewerStats(p) ==
  /\ Accept(p)
  /\ UNCHANGED <<store, clock>>
  /\ \E stats \in GetReviewerAssignmentStats :
       Return(p, Accepting(p),
              [NewFrame(p, "GetReviewerStats", "") EXCEPT !.stats = stats],
              Failed(ErrNil))

(***************************************************************************)
(* A store call fails.                                                     *)
(***************************************************************************)
\* The store call that worker p is about to make fails (connection lost, context
\* cancelled): the statement, or the transaction it belongs to, changes nothing, and
\* the service method returns the error as its code says: ReassignReviewer turns
\* every error of GetUserByID into ErrNotFound, all other errors are passed on.
StoreFailure(p) ==
  /\ pc[p] \notin {"idle", "done"}
  /\ UNCHANGED <<store, clock, ncalls, lastMerge>>
  /\ Return(p, frame, [frame[p] EXCEPT !.fault = TRUE],
            Failed(IF pc[p] = "rr_user" THEN ErrNotFound ELSE ErrStore))

\* the operations of the service
Operations ==
  {"CreateTeam", "GetTeam", "SetUserIsActive", "CreatePR", "MergePR",
   "ReassignReviewer", "GetReviews", "GetReviewerStats"}

\* A request arrives and the first store call of its service method fails (BeginTx
\* of CreateTeamWithMembers, the query of every other method): nothing is written.
\* The error is neither "team_exists" nor sql.ErrNoRows, so every method returns it
\* as it is.
RequestFails(p, op, id) ==
  /\ Accept(p)
  /\ UNCHANGED <<store, clock>>
  /\ Return(p, Accepting(p), [NewFrame(p, op, id) EXCEPT !.fault = TRUE], Failed(ErrStore))

(***************************************************************************)
(* The system: requests arrive at idle workers, workers step in any order. *)
(***************************************************************************)
NextOver(teamNames, memberLists, userIds) ==
  \E p \in Procs :
    \/ \E name \in teamNames, members \in memberLists :
         CreateTeam(p, [TeamName |-> name, Members |-> members])
    \/ CreateTeamInsert(p)
    \/ \E uid \in userIds, active \in BOOLEAN : SetUserIsActive(p, uid, active)
    \/ \E id \in PRIds, name \in PRNames, author \in userIds : CreatePR(p, id, name, author)
    \/ CreatePRAuthor(p)
    \/ CreatePRSelect(p)
    \/ CreatePRInsert(p)
    \/ \E id \in PRIds : MergePR(p, id)
    \/ MergePRReviewers(p)
    \/ MergePRUpdate(p)
    \/ MergePRRefetch(p)
    \/ MergePRRefetchReviewers(p)
    \/ \E id \in PRIds, old \in userIds : ReassignReviewer(p, id, old)
    \/ ReassignReviewers(p)
    \/ ReassignOldUser(p)
    \/ ReassignSelect(p)
    \/ ReassignSet(p)
    \/ Respond(p)

\* requests over two teams and the user ids UserIds
Next == NextOver(TeamNames, MemberLists, UserIds)
Spec == Init /\ [][Next]_vars

\* requests over one team of up to four users with plain ids
NextPlain == NextOver(PlainTeamNames, PlainMemberLists, PlainIds)
SpecPlain == Init /\ [][NextPlain]_vars

\* requests about teams only: CreateTeam with member lists that may repeat a user
\* id and submit either activity flag, GetTeam and SetUserIsActive
RepeatMemberLists ==
  UNION {[1..n -> [UserID : {UA, UB}, Username : Usernames, IsActive : BOOLEAN]] :
           n \in 0..MaxMembersRepeat}

NextTeams ==
  \E p \in Procs :
    \/ \E name \in TeamNames, members \in RepeatMemberLists :
         CreateTeam(p, [TeamName |-> name, Members |-> members])
    \/ CreateTeamInsert(p)
    \/ \E uid \in {UA, UB}, active \in BOOLEAN : SetUserIsActive(p, uid, active)
    \/ \E name \in TeamNames : GetTeam(p, name)
    \/ Respond(p)

SpecTeams == Init /\ [][NextTeams]_vars

\* the requests of SpecPlain and the two read requests about reviewers
NextReads ==
  \/ NextPlain
  \/ \E p \in Procs :
       \/ \E uid \in PlainIds : GetReviews(p, uid)
       \/ GetReviewerStats(p)

SpecReads == Init /\ [][NextReads]_vars

\* requests that create a team and two pull requests, and the statistics
PRIdsTwo == {"p1", "p2"}

NextStats ==
  \E p \in Procs :
    \/ \E name \in PlainTeamNames, members \in PlainMemberLists :
         CreateTeam(p, [TeamName |-> name, Members |-> members])
    \/ CreateTeamInsert(p)
    \/ \E id \in PRIdsTwo, name \in PRNames, author \in PlainIds : CreatePR(p, id, name, author)
    \/ CreatePRAuthor(p)
    \/ CreatePRSelect(p)
    \/ CreatePRInsert(p)
    \/ GetReviewerStats(p)
    \/ Respond(p)

SpecStats == Init /\ [][NextStats]_vars

\* the requests of SpecPlain with store calls that may fail
NextFaults ==
  \/ NextPlain
  \/ \E p \in Procs : StoreFailure(p)

SpecFaults == Init /\ [][NextFaults]_vars

\* the requests of SpecPlain where every store call may fail, the first one of a
\* request included
NextErrors ==
  \/ NextFaults
  \/ \E p \in Procs, op \in Operations, id \in PRIds : RequestFails(p, op, id)

SpecErrors == Init /\ [][NextErrors]_vars

\* requests about one pull request of a team of five active users: the team is
\* created, the pull request is created by its first member, reviewers are
\* reassigned, the transaction of SetPRReviewers taken statement by statement
RaceOrder == <<UA, UB, UC, UD, UE>>
RaceMemberLists ==
  {[i \in 1..Len(RaceOrder) |->
      [UserID |-> RaceOrder[i], Username |-> "n1", IsActive |-> TRUE]]}

NextRace ==
  \E p \in Procs :
    \/ \E name \in PlainTeamNames, members \in RaceMemberLists :
         CreateTeam(p, [TeamName |-> name, Members |-> members])
    \/ CreateTeamInsert(p)
    \/ \E id \in PRIds, name \in PRNames : CreatePR(p, id, name, UA)
    \/ CreatePRAuthor(p)
    \/ CreatePRSelect(p)
    \/ CreatePRInsert(p)
    \/ \E id \in PRIds, old \in RaceIds : ReassignReviewer(p, id, old)
    \/ ReassignReviewers(p)
    \/ ReassignOldUser(p)
    \/ ReassignSelect(p)
    \/ ReassignSetBegin(p)
    \/ ReassignSetDelete(p)
    \/ ReassignSetInsert(p)
    \/ Respond(p)

SpecRace == Init /\ [][NextRace]_vars

(***************************************************************************)
(* Properties.                                                             *)
(***************************************************************************)
\* a request of worker p has returned and its response is not yet written
Done(p, op) == pc[p] = "done" /\ frame[p].op = op

\* C1: in every reachable state no pull request has its own author among its stored
\* reviewers.
C1_AuthorNeverReviewer ==
  \A l \in links : l[1] \in DOMAIN prs => prs[l[1]].author_id # l[2]

\* C2: a pull request that is MERGED is still stored and MERGED after every step.
C2_MergedStaysMerged ==
  [][\A id \in DOMAIN prs :
       prs[id].status = PRStatusMerged
         => id \in DOMAIN prs' /\ prs'[id].status = PRStatusMerged]_vars

\* C2 witness: a request for a pull request that was already MERGED when it arrived
\* has run to its end and the pull request is MERGED.
C2_Witness ==
  \E p \in Procs :
    /\ pc[p] = "done"
    /\ frame[p].op \in {"CreatePR", "MergePR", "ReassignReviewer"}
    /\ frame[p].pre.exists
    /\ frame[p].pre.row.status = PRStatusMerged
    /\ prs[frame[p].id].status = PRStatusMerged

\* C3: no step changes the stored reviewer set of a pull request that is MERGED.
C3_NoReviewerChangeOnceMerged ==
  [][\A id \in DOMAIN prs :
       prs[id].status = PRStatusMerged => ReviewersIn(links', id) = Reviewers(id)]_vars

\* C4: a MergePR that finds the pull request MERGED returns success with the stored
\* merged_at and status and writes nothing; run alone it returns the stored reviewer
\* set, and run alone directly after a MergePR of the same pull request that ran
\* alone it returns the merged_at, status and reviewer set that call returned.
C4_MergeIdempotent ==
  \A p \in Procs :
    Done(p, "MergePR") /\ frame[p].pre.exists /\ frame[p].pre.row.status = PRStatusMerged
      => /\ frame[p].ret.err = ErrNil
         /\ ~frame[p].wrote
         /\ frame[p].ret.pr.Status = PRStatusMerged
         /\ frame[p].ret.pr.MergedAt = frame[p].pre.row.merged_at
         /\ frame[p].clean => Range(frame[p].ret.pr.AssignedReviewers) = frame[p].pre.revs
         /\ frame[p].clean /\ frame[p].prior.ID = frame[p].id
              => /\ frame[p].ret.pr.MergedAt = frame[p].prior.MergedAt
                 /\ frame[p].ret.pr.Status = frame[p].prior.Status
                 /\ Range(frame[p].ret.pr.AssignedReviewers)
                      = Range(frame[p].prior.AssignedReviewers)

\* C4 witness: a MergePR has returned that ran alone directly after another MergePR
\* of the same pull request, which has reviewers.
C4_Witness ==
  \E p \in Procs :
    /\ Done(p, "MergePR")
    /\ frame[p].clean
    /\ frame[p].prior.ID = frame[p].id
    /\ frame[p].ret.err = ErrNil
    /\ frame[p].ret.pr.AssignedReviewers # <<>>

\* C5: a MergePR that ran alone on a stored OPEN pull request returns success, the
\* row is MERGED with a merged_at that is not null, its name, author and created_at
\* and the stored reviewer set are as before the call, and the returned pull request
\* carries the reviewer set stored before the call; a MergePR of an id that is not
\* stored returns NotFound and writes nothing.
C5_MergeEffect ==
  \A p \in Procs :
    Done(p, "MergePR") =>
      /\ frame[p].clean /\ frame[p].pre.exists /\ frame[p].pre.row.status = PRStatusOpen
           => /\ frame[p].ret.err = ErrNil
              /\ prs[frame[p].id].status = PRStatusMerged
              /\ prs[frame[p].id].merged_at # 0
              /\ prs[frame[p].id].pull_request_name = frame[p].pre.row.pull_request_name
              /\ prs[frame[p].id].author_id = frame[p].pre.row.author_id
              /\ prs[frame[p].id].created_at = frame[p].pre.row.created_at
              /\ Reviewers(frame[p].id) = frame[p].pre.revs
              /\ Range(frame[p].ret.pr.AssignedReviewers) = frame[p].pre.revs
              /\ frame[p].ret.pr.Status = PRStatusMerged
              /\ frame[p].ret.pr.MergedAt = prs[frame[p].id].merged_at
      /\ ~frame[p].pre.exists
           => /\ frame[p].ret.err = ErrNotFound
              /\ ~frame[p].wrote
              /\ frame[p].clean => frame[p].id \notin DOMAIN prs

\* C5 witness: a MergePR that ran alone on an OPEN pull request with reviewers has
\* returned success.
C5_Witness ==
  \E p \in Procs :
    /\ Done(p, "MergePR")
    /\ frame[p].clean
    /\ frame[p].pre.exists
    /\ frame[p].pre.row.status = PRStatusOpen
    /\ frame[p].pre.revs # {}
    /\ frame[p].ret.err = ErrNil

\* C6: a CreatePR whose id is stored when the request arrives returns PRExists and
\* writes nothing; run alone, it leaves the stored row and reviewer set as they were.
C6_CreateExistingFails ==
  \A p \in Procs :
    Done(p, "CreatePR") /\ frame[p].pre.exists
      => /\ frame[p].ret.err = ErrPRExists
         /\ ~frame[p].wrote
         /\ frame[p].clean => PRSnapshot(prs, links, frame[p].id) = frame[p].pre

\* C6 witness: a CreatePR for a stored id, naming an author that does not exist, has
\* returned.
C6_Witness ==
  \E p \in Procs :
    /\ Done(p, "CreatePR")
    /\ frame[p].pre.exists
    /\ frame[p].pre.revs # {}
    /\ frame[p].author \notin DOMAIN users

\* C7: a successful CreatePR inserts the pull request OPEN with min(2, n) pairwise
\* distinct reviewers, n being the number of active users of the author's team other
\* than the author when the candidates were selected.
C7_CreateAssignsMin2 ==
  \A p \in Procs :
    Done(p, "CreatePR") /\ frame[p].ret.err = ErrNil
      => /\ frame[p].ret.pr.Status = PRStatusOpen
         /\ NoDup(frame[p].ret.pr.AssignedReviewers)
         /\ Len(frame[p].ret.pr.AssignedReviewers) = Min(2, frame[p].selN)

\* C8: every user selected by CreatePR or ReassignReviewer is, in the state in which
\* the selection is made, stored, active and of the team the selection was asked for
\* (the author's team, the replaced reviewer's team).
C8_SelectedActiveSameTeam ==
  [][\A p \in Procs :
       /\ pc[p] = "cp_select" /\ pc'[p] = "cp_insert"
            => \A r \in Range(frame'[p].pr.AssignedReviewers) :
                 /\ r \in DOMAIN users
                 /\ users[r].is_active
                 /\ users[r].team_name = frame[p].user_team
       /\ pc[p] = "rr_select" /\ pc'[p] = "rr_set"
            => /\ frame'[p].newReviewer \in DOMAIN users
               /\ users[frame'[p].newReviewer].is_active
               /\ users[frame'[p].newReviewer].team_name = frame[p].user_team]_vars

\* C9: the new reviewer a successful ReassignReviewer returns is not the author, not
\* the replaced reviewer and none of the reviewers the call read.
C9_NewReviewerFresh ==
  \A p \in Procs :
    Done(p, "ReassignReviewer") /\ frame[p].ret.err = ErrNil
      => /\ frame[p].ret.newReviewer # frame[p].ret.pr.AuthorID
         /\ frame[p].ret.newReviewer # frame[p].old
         /\ frame[p].ret.newReviewer \notin frame[p].seen

\* C10: after a successful ReassignReviewer that ran alone the stored reviewer set
\* is the previous set without old and with new; old is not in it, and the returned
\* pull request shows the stored set.
C10_ReassignReplaces ==
  \A p \in Procs :
    Done(p, "ReassignReviewer") /\ frame[p].ret.err = ErrNil /\ frame[p].clean
      => /\ Reviewers(frame[p].id)
              = (frame[p].pre.revs \ {frame[p].old}) \cup {frame[p].ret.newReviewer}
         /\ frame[p].old \notin Reviewers(frame[p].id)
         /\ Range(frame[p].ret.pr.AssignedReviewers) = Reviewers(frame[p].id)

\* C11: every step of a ReassignReviewer whose pull request was stored MERGED when
\* the request arrived leaves the four tables as they are, and the call ends with
\* PRMerged.
C11_ReassignMergedFails ==
  [][\A p \in Procs :
       /\ pc'[p] # pc[p]
       /\ frame'[p].op = "ReassignReviewer"
       /\ frame'[p].pre.exists
       /\ frame'[p].pre.row.status = PRStatusMerged
       => /\ store' = store
          /\ pc'[p] = "done" => frame'[p].ret.err = ErrPRMerged]_vars

\* C11 witness: a ReassignReviewer of a MERGED pull request has returned whose old is
\* no stored user and no reviewer of the pull request.
C11_Witness ==
  \E p \in Procs :
    /\ Done(p, "ReassignReviewer")
    /\ frame[p].pre.exists
    /\ frame[p].pre.row.status = PRStatusMerged
    /\ frame[p].old \notin DOMAIN users
    /\ frame[p].old \notin frame[p].pre.revs

\* C12: a ReassignReviewer that read the pull request OPEN and did not read old among
\* its reviewers returns NotAssigned and writes nothing.
C12_ReassignNotAssignedFails ==
  \A p \in Procs :
    /\ Done(p, "ReassignReviewer")
    /\ frame[p].pr.ID # ""
    /\ frame[p].pr.Status = PRStatusOpen
    /\ frame[p].old \notin frame[p].seen
    => /\ frame[p].ret.err = ErrNotAssigned
       /\ ~frame[p].wrote
       /\ frame[p].clean => PRSnapshot(prs, links, frame[p].id) = frame[p].pre

\* C12 witness: a ReassignReviewer has returned that named an unknown user as old, on
\* an OPEN pull request without reviewers.
C12_Witness ==
  \E p \in Procs :
    /\ Done(p, "ReassignReviewer")
    /\ frame[p].pr.Status = PRStatusOpen
    /\ frame[p].seen = {}
    /\ frame[p].old \notin DOMAIN users

\* C13: when ReassignReviewer, with old assigned on an OPEN pull request, makes its
\* selection, it ends with NoCandidate exactly if the team of old has no active user
\* outside old, the author and the reviewers read; otherwise it goes on to write
\* the new list.  The selection changes no link, and the write of a call that ran
\* alone succeeds.
C13_NoCandidateIffNoneEligible ==
  [][\A p \in Procs :
       /\ pc[p] = "rr_select" /\ pc'[p] # "rr_select"
            => /\ (pc'[p] = "done" /\ frame'[p].ret.err = ErrNoCandidate)
                    <=> EligibleForReassign(frame[p].user_team, frame[p].old,
                                            frame[p].pr.AuthorID,
                                            frame[p].pr.AssignedReviewers) = {}
               /\ EligibleForReassign(frame[p].user_team, frame[p].old,
                                      frame[p].pr.AuthorID,
                                      frame[p].pr.AssignedReviewers) # {}
                    => pc'[p] = "rr_set"
               /\ links' = links
       /\ pc[p] = "rr_set" /\ pc'[p] = "done" /\ frame[p].clean
            => frame'[p].ret.err = ErrNil]_vars

\* C14: a CreateTeam whose team name is stored when the request arrives ends at once
\* with TeamExists, whatever its member list, and changes no team and no user.
C14_CreateExistingTeamFails ==
  [][\A p \in Procs :
       /\ pc[p] = "idle"
       /\ frame'[p].op = "CreateTeam"
       /\ frame'[p].t.TeamName \in teams
       => /\ pc'[p] = "done"
          /\ frame'[p].ret.err = ErrTeamExists
          /\ ~frame'[p].wrote
          /\ teams' = teams
          /\ users' = users]_vars

\* C14 witness: a CreateTeam has returned TeamExists whose member list names a user
\* that is not stored.
C14_Witness ==
  \E p \in Procs :
    /\ Done(p, "CreateTeam")
    /\ frame[p].ret.err = ErrTeamExists
    /\ \E i \in DOMAIN frame[p].t.Members : frame[p].t.Members[i].UserID \notin DOMAIN users

\* C16: no step changes the set of user ids whose team is a stored team.
C16_MembershipFixed ==
  [][\A name \in teams : MembersOf(users', name) = MembersOf(users, name)]_vars

\* C15: a GetTeam that arrives directly after a successful CreateTeam of the same
\* name (no request was accepted in between) succeeds and returns, as a set, the
\* members that were submitted.
C15_GetTeamReturnsSubmitted ==
  [][\A p, q \in Procs :
       /\ pc[p] = "idle"
       /\ frame'[p].op = "GetTeam"
       /\ Done(q, "CreateTeam")
       /\ frame[q].ret.err = ErrNil
       /\ frame[q].clean
       /\ frame[q].t.TeamName = frame'[p].t.TeamName
       => /\ frame'[p].ret.err = ErrNil
          /\ Range(frame'[p].team.Members) = Range(frame[q].t.Members)]_vars

\* C17: every GetReviews succeeds and returns, once each, the stored pull requests
\* (id, name, author, status) that have a link to the user id in the state in which
\* the query runs, and no other; without such a link the result is empty.
C17_ReviewsAreCurrentLinks ==
  [][\A p \in Procs :
       pc[p] = "idle" /\ frame'[p].op = "GetReviews"
       => /\ frame'[p].ret.err = ErrNil
          /\ NoDup(frame'[p].reviews)
          /\ {r.ID : r \in Range(frame'[p].reviews)}
               = {l[1] : l \in {x \in links : x[2] = frame'[p].uid}}
          /\ \A r \in Range(frame'[p].reviews) :
               /\ r.Name = prs[r.ID].pull_request_name
               /\ r.AuthorID = prs[r.ID].author_id
               /\ r.Status = prs[r.ID].status]_vars

\* C17 witness: a GetReviews that ran alone has returned a MERGED pull request.
C17_Witness ==
  \E p \in Procs :
    /\ Done(p, "GetReviews")
    /\ frame[p].clean
    /\ \E i \in DOMAIN frame[p].reviews : frame[p].reviews[i].Status = PRStatusMerged

\* C18: every GetReviewerStats succeeds, reports for each listed user the number of
\* links stored with that user id in the state in which the query runs, and lists
\* no count before a larger one.
C18_StatsCountLinks ==
  [][\A p \in Procs :
       pc[p] = "idle" /\ frame'[p].op = "GetReviewerStats"
       => /\ frame'[p].ret.err = ErrNil
          /\ \A i \in DOMAIN frame'[p].stats :
               frame'[p].stats[i].Assignments
                 = Cardinality({l \in links : l[2] = frame'[p].stats[i].UserID})
          /\ \A i, j \in DOMAIN frame'[p].stats :
               i < j => frame'[p].stats[i].Assignments >= frame'[p].stats[j].Assignments]_vars

\* C18 witness: a GetReviewerStats has returned several entries, one of them with two
\* assignments.
C18_Witness ==
  \E p \in Procs :
    /\ Done(p, "GetReviewerStats")
    /\ Len(frame[p].stats) >= 2
    /\ \E i \in DOMAIN frame[p].stats : frame[p].stats[i].Assignments = 2

\* C19: every GetReviewerStats result has an entry for every user that is known to
\* have been written as reviewer: the users of the stored links and the reviewers
\* that the requests in progress or just finished read from the links earlier.
C19_StatsListEveryAssigned ==
  [][\A p \in Procs :
       pc[p] = "idle" /\ frame'[p].op = "GetReviewerStats"
       => \A u \in {l[2] : l \in links}
                     \cup UNION {frame[q].seen \cup frame[q].pre.revs : q \in Procs} :
            \E i \in DOMAIN frame'[p].stats : frame'[p].stats[i].UserID = u]_vars

\* C20: a CreateTeam, CreatePR, MergePR or ReassignReviewer that returns an error
\* has changed nothing in the store, and if it ran alone the pull request it names
\* is stored as before the call.
C20_ErrorMeansNoEffect ==
  \A p \in Procs :
    /\ pc[p] = "done"
    /\ frame[p].op \in {"CreateTeam", "CreatePR", "MergePR", "ReassignReviewer"}
    /\ frame[p].ret.err # ErrNil
    => /\ ~frame[p].wrote
       /\ frame[p].clean => PRSnapshot(prs, links, frame[p].id) = frame[p].pre

\* C21: a call in which a store call failed returns that store error, and no
\* business error; a ReassignReviewer that ends with NotFound at the lookup of old
\* does so only if no user with that id is stored.
C21_StoreFailurePropagates ==
  [][\A p \in Procs :
       pc[p] # "done" /\ pc'[p] = "done"
       => /\ frame'[p].fault
               => frame'[p].ret.err = ErrStore /\ frame'[p].ret.err \notin BusinessErrors
          /\ pc[p] = "rr_user" /\ frame'[p].ret.err = ErrNotFound
               => frame[p].old \notin DOMAIN users]_vars

\* C22: a SetUserIsActive of a user id that is not stored returns NotFound and leaves
\* the four tables as they are; of a stored user it succeeds, sets that user's
\* is_active to the submitted value, returns the user as stored then, and leaves
\* the user's username and team, every other user, the teams, the pull requests and
\* the reviewer links as they are.
C22_SetUserIsActiveFrame ==
  [][\A p \in Procs :
       pc[p] = "idle" /\ frame'[p].op = "SetUserIsActive"
       => /\ pc'[p] = "done"
          /\ teams' = teams /\ prs' = prs /\ links' = links
          /\ IF frame'[p].uid \notin DOMAIN users
             THEN /\ frame'[p].ret.err = ErrNotFound
                  /\ users' = users
             ELSE /\ frame'[p].ret.err = ErrNil
                  /\ DOMAIN users' = DOMAIN users
                  /\ \A u \in DOMAIN users \ {frame'[p].uid} : users'[u] = users[u]
                  /\ users'[frame'[p].uid].is_active = frame'[p].active
                  /\ users'[frame'[p].uid].username = users[frame'[p].uid].username
                  /\ users'[frame'[p].uid].team_name = users[frame'[p].uid].team_name
                  /\ frame'[p].ret.user
                       = [UserID |-> frame'[p].uid,
                          Username |-> users'[frame'[p].uid].username,
                          TeamName |-> users'[frame'[p].uid].team_name,
                          IsActive |-> frame'[p].active]]_vars

\* C22 witness: a SetUserIsActive has set a user inactive who is still stored as
\* reviewer of an OPEN pull request, while another user stays active.
C22_Witness ==
  \E p \in Procs :
    /\ Done(p, "SetUserIsActive")
    /\ frame[p].ret.err = ErrNil
    /\ ~frame[p].active
    /\ ~users[frame[p].uid].is_active
    /\ \E id \in DOMAIN prs :
         prs[id].status = PRStatusOpen /\ <<id, frame[p].uid>> \in links
    /\ \E u \in DOMAIN users : users[u].is_active

\* C23: after the committed write of a ReassignReviewer every reviewer the call
\* read, except old, and the new reviewer are stored for the pull request, also
\* those another call has replaced since the read; and when no other write was
\* committed since the call's DELETE started, they are the whole stored set.
C23_RewriteFromOwnRead ==
  [][\A p \in Procs :
       pc[p] = "rr_insert" /\ pc'[p] = "done" /\ frame'[p].ret.err = ErrNil
       => /\ (frame[p].seen \ {frame[p].old}) \cup {frame[p].newReviewer}
               \subseteq ReviewersIn(links', frame[p].id)
          /\ frame[p].deleted = {l \in links : l[1] = frame[p].id}
               => ReviewersIn(links', frame[p].id)
                    = (frame[p].seen \ {frame[p].old}) \cup {frame[p].newReviewer}]_vars

\* C23 witness: two ReassignReviewer calls on the same OPEN pull request read the
\* same reviewer set and both returned success; the one of worker q replaced
\* another reviewer and selected another user than the old reviewer of worker p,
\* yet that old reviewer is stored as reviewer again and the new reviewer returned
\* to worker p is not.
C23_Witness ==
  \E p, q \in Procs :
    /\ p # q
    /\ Done(p, "ReassignReviewer") /\ frame[p].ret.err = ErrNil
    /\ Done(q, "ReassignReviewer") /\ frame[q].ret.err = ErrNil
    /\ frame[q].id = frame[p].id
    /\ prs[frame[p].id].status = PRStatusOpen
    /\ frame[q].seen = frame[p].seen
    /\ frame[q].old # frame[p].old
    /\ frame[q].ret.newReviewer # frame[p].old
    /\ frame[p].old \in Reviewers(frame[p].id)
    /\ frame[p].ret.newReviewer \notin Reviewers(frame[p].id)

\* C24: no step changes a stored merged_at that is not null, and every MergePR that
\* returns success returns the merged_at that is stored.
C24_MergedAtWrittenOnce ==
  [][/\ \A id \in DOMAIN prs :
          prs[id].merged_at # 0
            => id \in DOMAIN prs' /\ prs'[id].merged_at = prs[id].merged_at
     /\ \A p \in Procs :
          /\ pc[p] # "done" /\ pc'[p] = "done"
          /\ frame'[p].op = "MergePR" /\ frame'[p].ret.err = ErrNil
          => frame'[p].ret.pr.MergedAt = prs'[frame'[p].id].merged_at]_vars

\* C25: when a CreatePR reaches its insert and the id has been stored meanwhile by
\* another call, it returns PRExists and the stored row and reviewer links stay as
\* they are; otherwise it succeeds and the links of the pull request are exactly
\* the reviewers it selected.
C25_ConcurrentCreateOneWins ==
  [][\A p \in Procs :
       pc[p] = "cp_insert" /\ pc'[p] = "done"
       => IF frame[p].id \in DOMAIN prs
          THEN /\ frame'[p].ret.err = ErrPRExists
               /\ prs' = prs
               /\ links' = links
          ELSE /\ frame'[p].ret.err = ErrNil
               /\ ReviewersIn(links', frame[p].id) = Range(frame[p].pr.AssignedReviewers)]_vars

\* C26: every stored pull request has at most two reviewers, and no step changes the
\* number of reviewers of a stored pull request.
C26_ReviewerCountFixed ==
  [][\A id \in DOMAIN prs :
       /\ Cardinality(Reviewers(id)) <= 2
       /\ Cardinality(ReviewersIn(links', id)) = Cardinality(Reviewers(id))]_vars

====
